---- MODULE Spec2Model ----
(***************************************************************************)
(* Collection pipeline of assistente_virtual_juiz: the orchestrator        *)
(* (JurisprudenciaService), its dedup/persist step over the two tables,    *)
(* and the job scheduler (SchedulerService and the /scheduler routes).     *)
(***************************************************************************)
EXTENDS Integers, Sequences, FiniteSets, TLC

(* ------------------------------ bounds --------------------------------- *)
\* process / enunciado numbers the sources publish: 1..MaxNumero
MaxNumero == 2
\* longest list an adapter returns
MaxBatch == 2
\* rows the two tables hold at most (the sources publish no more new records)
MaxRows == 2
\* runs of collect_all_recent_jurisprudence started in one behaviour
MaxRuns == 2
\* records the sources publish in total when their listings are fixed
MaxFeed == 2

(* ---------------------------- data domains ----------------------------- *)
\* self.scrapers, in the dict's insertion order
Registry == <<"STF", "STJ", "TJSP", "ENUNCIADOS">>

NumAdapters == Len(Registry)

Adapters == {Registry[i] : i \in 1..NumAdapters}

\* the request thread that calls the collection in the sequential specifications
Caller == "req1"

\* request threads of the web server and worker threads of the job executor
Requests == {"req1", "req2"}

Workers == {"worker1", "worker2"}

Threads == Requests \cup Workers

Numeros == 1..MaxNumero

\* contents of the text column (ementa / texto)
Textos == {"a", "b"}

\* a decision dict as an adapter returns it: the tribunal is the adapter's name
Decisions(a) == [tribunal : {a}, numero_processo : Numeros, ementa : Textos]

\* an enunciado dict as the ENUNCIADOS adapter returns it
Enunciados == [orgao : {"FONAJE"}, tipo : {"CIVEIS"}, numero : Numeros, texto : Textos]

RecordsOf(a) == IF a = "ENUNCIADOS" THEN Enunciados ELSE Decisions(a)

\* the lists an adapter may return
Batches(a) == UNION {[1..n -> RecordsOf(a)] : n \in 0..MaxBatch}

VARIABLES
    jurisprudencia,   \* table 'jurisprudencia': the committed rows, in insertion order
    enunciados,       \* table 'enunciados': the committed rows, in insertion order
    sources,          \* per adapter: the listing its source publishes, or volatile
    pc,               \* per thread: "idle", "collect", "commit", "return", "add_job"
    idx,              \* per thread: position in the registry of the current iteration
    decisions,        \* per thread: the list the current adapter returned
    session,          \* per thread: rows added to db.session and not yet committed
    saved_count,      \* per thread: saved_count of the running _save_* call
    results,          \* per thread: the results dict of the run
    run_id,           \* per thread: the number of the run it executes, 0 when idle
    runs,             \* number of runs started so far
    error_log,        \* the runs in which the service logged an error
    jobs,             \* the scheduler's job table: job id -> job
    running,          \* scheduler.running
    instances,        \* executions of the daily job the executor has in progress
    route,            \* per thread: what called collect_daily_jurisprudence
    args,             \* per thread: hour and minute of the reconfiguration under way
    response,         \* the answer a route gave last, and the thread that gave it
    timer,            \* the scheduler's clock, the daily job's next run time and
                      \* the outcomes of its trigger evaluations
    scrape            \* the adapters: the last call of an adapter's operation with
                      \* what it returned, and the sources in which a fetch or a
                      \* parse failed during the run

dbVars == <<jurisprudencia, enunciados>>
collVars == <<jurisprudencia, enunciados, sources, pc, idx, decisions, session,
              saved_count, results, run_id, runs, error_log>>
schedVars == <<jobs, running, instances, route, args, response, timer>>
vars == <<collVars, schedVars, scrape>>

(* ------------------------- dedup / persist step ------------------------ *)
\* the uniqueness key the lookup filters by
KeyOf(r) ==
    IF "orgao" \in DOMAIN r
    THEN <<r.orgao, r.tipo, r.numero>>
    ELSE <<r.tribunal, r.numero_processo>>

\* a lookup that sees the committed rows only
ExistingCommitted(table, staged, r) ==
    \E i \in 1..Len(table) : KeyOf(table[i]) = KeyOf(r)

\* a lookup that finds nothing
ExistingNever(table, staged, r) == FALSE

\* Model.query.filter_by(key).first(): the session autoflushes before the query,
\* so the query sees the committed rows and the rows this call has staged
Existing(table, staged, r) ==
    \E i \in 1..Len(table) + Len(staged) : KeyOf((table \o staged)[i]) = KeyOf(r)

\* a loop without the lookup: every record of the list is staged
RECURSIVE StagedAll(_, _, _)
StagedAll(table, batch, n) ==
    IF n = 0 THEN <<>> ELSE Append(StagedAll(table, batch, n - 1), batch[n])

\* the for loop of _save_jurisprudencia / _save_enunciados over the first n
\* records: the rows passed to db.session.add, in order
RECURSIVE Staged(_, _, _)
Staged(table, batch, n) ==
    IF n = 0 THEN <<>>
    ELSE LET before == Staged(table, batch, n - 1)
         IN  IF Existing(table, before, batch[n])
             THEN before
             ELSE Append(before, batch[n])

EmptyResults == [success |-> <<>>, errors |-> <<>>, total_collected |-> 0]

TableOf(a) == IF a = "ENUNCIADOS" THEN enunciados ELSE jurisprudencia

Adapter(t) == Registry[idx[t]]

\* what the adapter's call may return
Outputs(a) == IF sources[a].volatile THEN Batches(a) ELSE {sources[a].listing}

(* --------------------------- scheduler state --------------------------- *)
DailyJobId == "daily_jurisprudence"

CustomJobId == "custom_job"

JobIds == {DailyJobId, CustomJobId}

\* the daily job as add_job registers it, with CronTrigger(hour=h, minute=m)
DailyJob(h, m) ==
    [func |-> "collect_daily_jurisprudence", hour |-> h, minute |-> m,
     max_instances |-> 1, misfire_grace_time |-> 3600]

\* a custom job registered without a limit of one instance
CustomJobUnlimited(h, m) ==
    [func |-> "func", hour |-> h, minute |-> m, max_instances |-> 2]

\* a job of add_custom_job: trigger_config.get('hour', 0), .get('minute', 0)
CustomJob(h, m) == [func |-> "func", hour |-> h, minute |-> m, max_instances |-> 1]

\* the job table after add_job(id=id, replace_existing=True)
WithJob(table, id, job) ==
    [i \in DOMAIN table \cup {id} |-> IF i = id THEN job ELSE table[i]]

\* the job table after remove_job(id)
WithoutJob(table, id) == [i \in DOMAIN table \ {id} |-> table[i]]

NoJobs == [i \in {} |-> DailyJob(0, 0)]

\* get_scheduled_jobs(): the ids of the jobs the scheduler holds
ListedJobs == DOMAIN jobs

\* result items in a search page
MaxItems == 2

\* seconds in a tick of the scheduler's clock
TickSeconds == 1800

\* ticks between two scheduled times of the daily job (a day, shortened)
DayTicks == 4

\* the clock stops at MaxTime ticks
MaxTime == 9

\* values of 'hour' and 'minute' in the body of PUT /schedule-config
HourInputs == {-1, 23, 24}

MinuteInputs == {-1, 59, 60}

\* request.get_json(): a dict with or without 'hour' and 'minute', or nothing
NoBody == [k \in {} |-> 0]

Bodies ==
    {[hour |-> h, minute |-> m] : h \in HourInputs, m \in MinuteInputs}
        \cup {[hour |-> h] : h \in HourInputs}
        \cup {[minute |-> m] : m \in MinuteInputs}
        \cup {NoBody}

\* data.get('minute', 0)
MinuteOf(data) == IF "minute" \in DOMAIN data THEN data.minute ELSE 0

\* an hour check that lets 24 through
ValidHourUpTo24(h) == 0 <= h /\ h <= 24

\* 0 <= hour <= 23
ValidHour(h) == 0 <= h /\ h <= 23

\* 0 <= minute <= 59
ValidMinute(m) == 0 <= m /\ m <= 59

\* the three early returns of update_schedule_config, in the code's order
Rejects(data) ==
    \/ DOMAIN data = {}
    \/ "hour" \notin DOMAIN data
    \/ ~ValidHour(data.hour)
    \/ ~ValidMinute(MinuteOf(data))

\* jsonify(...), status
Response(t, r, j, status, success, message) ==
    [thread |-> t, route |-> r, job_id |-> j, status |-> status,
     success |-> success, message |-> message, results |-> EmptyResults]

NoResponse == Response("none", "none", "", 0, FALSE, "")

NoArgs == [hour |-> 0, minute |-> 0]

\* the state init_app leaves: the daily job at 09:00, the scheduler started
SchedulerStarted ==
    /\ jobs = WithJob(NoJobs, DailyJobId, DailyJob(9, 0))
    /\ running = TRUE
    /\ instances = 0
    /\ route = [t \in Threads |-> "none"]
    /\ args = [t \in Threads |-> NoArgs]
    /\ response = NoResponse
    /\ timer = [now |-> 0, next_run |-> DayTicks, log |-> <<>>]

(* -------------------------- collection actions ------------------------ *)
\* no operation of an adapter has been called
NoCall == [fn |-> "none"]

NoScrape == [call |-> NoCall, faults |-> {}]

IdleThreads ==
    /\ pc = [t \in Threads |-> "idle"]
    /\ idx = [t \in Threads |-> 1]
    /\ decisions = [t \in Threads |-> <<>>]
    /\ session = [t \in Threads |-> <<>>]
    /\ saved_count = [t \in Threads |-> 0]
    /\ results = [t \in Threads |-> EmptyResults]
    /\ run_id = [t \in Threads |-> 0]
    /\ runs = 0
    /\ error_log = {}
    /\ scrape = NoScrape

\* empty tables; the sources' content changes from call to call
Init ==
    /\ jurisprudencia = <<>>
    /\ enunciados = <<>>
    /\ sources = [a \in Adapters |-> [volatile |-> TRUE, listing |-> <<>>]]
    /\ IdleThreads
    /\ SchedulerStarted

\* collect_all_recent_jurisprudence is entered: results is initialised
StartRun(t) ==
    /\ pc[t] = "idle"
    /\ runs < MaxRuns
    /\ runs' = runs + 1
    /\ run_id' = [run_id EXCEPT ![t] = runs + 1]
    /\ pc' = [pc EXCEPT ![t] = "collect"]
    /\ idx' = [idx EXCEPT ![t] = 1]
    /\ results' = [results EXCEPT ![t] = EmptyResults]
    /\ UNCHANGED <<dbVars, sources, decisions, session, saved_count, error_log>>

\* the adapter returns a list and the for loop of _save_* stages its new records
CollectBatch(t, b) ==
    /\ pc[t] = "collect"
    /\ LET staged == Staged(TableOf(Adapter(t)), b, Len(b))
       IN  /\ Len(jurisprudencia) + Len(enunciados) + Len(staged) <= MaxRows
           /\ decisions' = [decisions EXCEPT ![t] = b]
           /\ session' = [session EXCEPT ![t] = staged]
           /\ saved_count' = [saved_count EXCEPT ![t] = Len(staged)]
    /\ pc' = [pc EXCEPT ![t] = "commit"]
    /\ UNCHANGED <<dbVars, sources, idx, results, run_id, runs, error_log>>

\* the adapter returns one of the lists it may return
Collect(t) == \E b \in Outputs(Adapter(t)) : CollectBatch(t, b)

\* an iteration that leaves the loop where it is: the same adapter comes again
EndIterationStays(t) ==
    /\ pc' = [pc EXCEPT ![t] = "collect"]
    /\ idx' = idx
    /\ session' = [session EXCEPT ![t] = <<>>]

\* what ends an iteration of the for loop over self.scrapers: the session holds
\* nothing (committed or rolled back); the locals keep their last values
EndIteration(t) ==
    /\ pc' = [pc EXCEPT ![t] = IF idx[t] = NumAdapters THEN "return" ELSE "collect"]
    /\ idx' = [idx EXCEPT ![t] = IF idx[t] = NumAdapters THEN @ ELSE @ + 1]
    /\ session' = [session EXCEPT ![t] = <<>>]

\* results['success'].append(...); results['total_collected'] += saved_count
Success(t, n) ==
    [results EXCEPT ![t].success = Append(@, [source |-> Adapter(t), count |-> n]),
                    ![t].total_collected = @ + n]

\* an except clause that also reports the source as collected
FailureAndSuccess(t) ==
    [results EXCEPT ![t].errors = Append(@, [source |-> Adapter(t)]),
                    ![t].success = Append(@, [source |-> Adapter(t), count |-> 0])]

\* except Exception: results['errors'].append(error_msg)
Failure(t) ==
    [results EXCEPT ![t].errors = Append(@, [source |-> Adapter(t)])]

\* a raise that ends the whole run instead of the iteration
CollectRaisesAborts(t) ==
    /\ pc[t] = "collect"
    /\ Adapter(t) \in {"STF", "TJSP"}
    /\ results' = Failure(t)
    /\ error_log' = error_log \cup {run_id[t]}
    /\ pc' = [pc EXCEPT ![t] = "return"]
    /\ UNCHANGED <<dbVars, sources, idx, decisions, session, saved_count, run_id, runs>>

\* the adapter's call raises: the except clause of the run records the error
CollectRaises(t) ==
    /\ pc[t] = "collect"
    /\ Adapter(t) \in {"STF", "TJSP"}
    /\ results' = Failure(t)
    /\ error_log' = error_log \cup {run_id[t]}
    /\ EndIteration(t)
    /\ UNCHANGED <<dbVars, sources, decisions, saved_count, run_id, runs>>

\* a commit that reports every record of the list, stored or skipped
CommitOkCountsAll(t) ==
    /\ pc[t] = "commit"
    /\ IF Adapter(t) = "ENUNCIADOS"
       THEN enunciados' = enunciados \o session[t] /\ UNCHANGED jurisprudencia
       ELSE jurisprudencia' = jurisprudencia \o session[t] /\ UNCHANGED enunciados
    /\ results' = Success(t, Len(decisions[t]))
    /\ EndIteration(t)
    /\ UNCHANGED <<sources, decisions, saved_count, run_id, runs, error_log>>

\* db.session.commit() succeeds: the staged rows are in the table
CommitOk(t) ==
    /\ pc[t] = "commit"
    /\ IF Adapter(t) = "ENUNCIADOS"
       THEN enunciados' = enunciados \o session[t] /\ UNCHANGED jurisprudencia
       ELSE jurisprudencia' = jurisprudencia \o session[t] /\ UNCHANGED enunciados
    /\ results' = Success(t, saved_count[t])
    /\ EndIteration(t)
    /\ UNCHANGED <<sources, decisions, saved_count, run_id, runs, error_log>>

\* a failed commit whose flushed rows stay in the table
CommitFailsKeepsRows(t) ==
    /\ pc[t] = "commit"
    /\ IF Adapter(t) = "ENUNCIADOS"
       THEN enunciados' = enunciados \o session[t] /\ UNCHANGED jurisprudencia
       ELSE jurisprudencia' = jurisprudencia \o session[t] /\ UNCHANGED enunciados
    /\ saved_count' = [saved_count EXCEPT ![t] = 0]
    /\ results' = Success(t, 0)
    /\ error_log' = error_log \cup {run_id[t]}
    /\ EndIteration(t)
    /\ UNCHANGED <<sources, decisions, run_id, runs>>

\* a failed commit whose rollback also undoes the batches committed before it
CommitFailsRollsBackAll(t) ==
    /\ pc[t] = "commit"
    /\ jurisprudencia' = <<>>
    /\ enunciados' = <<>>
    /\ saved_count' = [saved_count EXCEPT ![t] = 0]
    /\ results' = Success(t, 0)
    /\ error_log' = error_log \cup {run_id[t]}
    /\ EndIteration(t)
    /\ UNCHANGED <<sources, decisions, run_id, runs>>

\* db.session.commit() raises: rollback, saved_count = 0
CommitFails(t) ==
    /\ pc[t] = "commit"
    /\ saved_count' = [saved_count EXCEPT ![t] = 0]
    /\ results' = Success(t, 0)
    /\ error_log' = error_log \cup {run_id[t]}
    /\ EndIteration(t)
    /\ UNCHANGED <<dbVars, sources, decisions, run_id, runs>>

\* db.session.commit() raises and so does db.session.rollback(): the exception
\* leaves _save_* and reaches the except clause of the run
RollbackRaises(t) ==
    /\ pc[t] = "commit"
    /\ results' = Failure(t)
    /\ error_log' = error_log \cup {run_id[t]}
    /\ EndIteration(t)
    /\ UNCHANGED <<dbVars, sources, decisions, saved_count, run_id, runs>>

\* return results: the dict goes to the caller, the locals are gone
Return(t) ==
    /\ pc[t] = "return"
    /\ pc' = [pc EXCEPT ![t] = "idle"]
    /\ idx' = [idx EXCEPT ![t] = 1]
    /\ decisions' = [decisions EXCEPT ![t] = <<>>]
    /\ saved_count' = [saved_count EXCEPT ![t] = 0]
    /\ results' = [results EXCEPT ![t] = EmptyResults]
    /\ run_id' = [run_id EXCEPT ![t] = 0]
    /\ UNCHANGED <<dbVars, sources, session, runs, error_log>>

NoRunActive == \A t \in Threads : pc[t] = "idle"

\* one caller, one run after the other
Next ==
    \/ NoRunActive /\ StartRun(Caller) /\ UNCHANGED <<schedVars, scrape>>
    \/ Collect(Caller) /\ UNCHANGED <<schedVars, scrape>>
    \/ CollectRaises(Caller) /\ UNCHANGED <<schedVars, scrape>>
    \/ CommitOk(Caller) /\ UNCHANGED <<schedVars, scrape>>
    \/ CommitFails(Caller) /\ UNCHANGED <<schedVars, scrape>>
    \/ RollbackRaises(Caller) /\ UNCHANGED <<schedVars, scrape>>
    \/ Return(Caller) /\ UNCHANGED <<schedVars, scrape>>

Spec == Init /\ [][Next]_vars

(* ---------------- two runs over sources that do not change -------------- *)
\* records in the lists of a listing
FeedSize(l) == Len(l.STF) + Len(l.STJ) + Len(l.TJSP) + Len(l.ENUNCIADOS)

\* the listings the sources can publish: at most MaxFeed records in all
Listings ==
    {l \in [STF : Batches("STF"), STJ : Batches("STJ"), TJSP : Batches("TJSP"),
            ENUNCIADOS : Batches("ENUNCIADOS")] : FeedSize(l) <= MaxFeed}

\* empty tables; every adapter returns the same list on every call
RepeatInit ==
    /\ jurisprudencia = <<>>
    /\ enunciados = <<>>
    /\ \E l \in Listings :
           sources = [a \in Adapters |-> [volatile |-> FALSE, listing |-> l[a]]]
    /\ IdleThreads
    /\ SchedulerStarted

\* collect_all_recent_jurisprudence(d) called twice in a row by one caller;
\* every adapter returns its list
RepeatNext ==
    \/ NoRunActive /\ StartRun(Caller) /\ UNCHANGED <<schedVars, scrape>>
    \/ Collect(Caller) /\ UNCHANGED <<schedVars, scrape>>
    \/ CommitOk(Caller) /\ UNCHANGED <<schedVars, scrape>>
    \/ CommitFails(Caller) /\ UNCHANGED <<schedVars, scrape>>
    \/ RollbackRaises(Caller) /\ UNCHANGED <<schedVars, scrape>>
    \/ Return(Caller) /\ UNCHANGED <<schedVars, scrape>>

RepeatSpec == RepeatInit /\ [][RepeatNext]_vars

(* -------------------------- scheduler actions -------------------------- *)
\* the thread answers its request in one step and touches nothing else
Responds(t, resp) ==
    /\ response' = resp
    /\ UNCHANGED <<collVars, running, instances, route, args>>

\* a manual run that takes the job out of the table
RunJobNowOnce(t, j) ==
    /\ pc[t] = "idle"
    /\ IF j \notin DOMAIN jobs
       THEN Responds(t, Response(t, "run_job_now", j, 400, FALSE, "not found"))
            /\ UNCHANGED jobs
       ELSE IF j = DailyJobId
            THEN /\ StartRun(t)
                 /\ route' = [route EXCEPT ![t] = "run_job_now"]
                 /\ jobs' = WithoutJob(jobs, j)
                 /\ UNCHANGED <<running, instances, args, response>>
            ELSE /\ Responds(t, Response(t, "run_job_now", j, 400, FALSE,
                                         "not supported"))
                 /\ UNCHANGED jobs

\* POST /jobs/<job_id>/run: run_job_now up to the call of collect_daily_jurisprudence
RunJobNow(t, j) ==
    /\ pc[t] = "idle"
    /\ IF j \notin DOMAIN jobs
       THEN Responds(t, Response(t, "run_job_now", j, 400, FALSE, "not found")) /\ UNCHANGED jobs
       ELSE IF j = DailyJobId
            THEN /\ StartRun(t)
                 /\ route' = [route EXCEPT ![t] = "run_job_now"]
                 /\ UNCHANGED <<jobs, running, instances, args, response>>
            ELSE /\ Responds(t, Response(t, "run_job_now", j, 400, FALSE,
                                         "not supported"))
                 /\ UNCHANGED jobs

\* collect_daily_jurisprudence returns to run_job_now, which answers success
RunJobNowReturns(t) ==
    /\ route[t] = "run_job_now"
    /\ Return(t)
    /\ route' = [route EXCEPT ![t] = "none"]
    /\ response' = [Response(t, "run_job_now", DailyJobId, 200, TRUE, "results")
                        EXCEPT !.results = results[t]]
    /\ UNCHANGED <<jobs, running, instances, args>>

\* a removal that empties the job table
ServiceRemoveJobAll(t, r, j) ==
    IF j \in DOMAIN jobs
    THEN jobs' = NoJobs /\ Responds(t, Response(t, r, j, 200, TRUE, "removed"))
    ELSE UNCHANGED jobs /\ Responds(t, Response(t, r, j, 400, FALSE, "not found"))

\* SchedulerService.remove_job
ServiceRemoveJob(t, r, j) ==
    IF j \in DOMAIN jobs
    THEN jobs' = WithoutJob(jobs, j) /\ Responds(t, Response(t, r, j, 200, TRUE, "removed"))
    ELSE UNCHANGED jobs /\ Responds(t, Response(t, r, j, 400, FALSE, "not found"))

\* a DELETE route that hands every id to the service
RemoveJobUnprotected(t, j) ==
    /\ pc[t] = "idle"
    /\ ServiceRemoveJob(t, "remove_job", j)

\* DELETE /jobs/<job_id>
RemoveJob(t, j) ==
    /\ pc[t] = "idle"
    /\ IF j = DailyJobId
       THEN Responds(t, Response(t, "remove_job", j, 400, FALSE, "protected")) /\ UNCHANGED jobs
       ELSE ServiceRemoveJob(t, "remove_job", j)

\* PUT /schedule-config up to scheduler_service.remove_job('daily_jurisprudence')
UpdateScheduleConfig(t, data) ==
    /\ pc[t] = "idle"
    /\ IF Rejects(data)
       THEN Responds(t, Response(t, "update_schedule_config", "", 400, FALSE, "invalid"))
            /\ UNCHANGED jobs
       ELSE /\ jobs' = WithoutJob(jobs, DailyJobId)
            /\ args' = [args EXCEPT ![t] = [hour |-> data.hour, minute |-> MinuteOf(data)]]
            /\ pc' = [pc EXCEPT ![t] = "add_job"]
            /\ UNCHANGED <<dbVars, sources, idx, decisions, session, saved_count,
                           results, run_id, runs, error_log>>
            /\ UNCHANGED <<running, instances, route, response>>

\* PUT /schedule-config from scheduler.add_job(...) to the 200 answer
AddJob(t) ==
    /\ pc[t] = "add_job"
    /\ jobs' = WithJob(jobs, DailyJobId, DailyJob(args[t].hour, args[t].minute))
    /\ pc' = [pc EXCEPT ![t] = "idle"]
    /\ args' = [args EXCEPT ![t] = NoArgs]
    /\ response' = Response(t, "update_schedule_config", "", 200, TRUE, "updated")
    /\ UNCHANGED <<dbVars, sources, idx, decisions, session, saved_count,
                   results, run_id, runs, error_log>>
    /\ UNCHANGED <<running, instances, route>>

\* an executor that accepts every run
FireUnlimited(w) ==
    /\ running
    /\ DailyJobId \in DOMAIN jobs
    /\ StartRun(w)
    /\ instances' = instances + 1
    /\ route' = [route EXCEPT ![w] = "executor"]
    /\ UNCHANGED <<jobs, running, args, response>>

\* the trigger of the daily job fires and the executor accepts the run:
\* fewer than max_instances executions of the job are in progress
Fire(w) ==
    /\ running
    /\ DailyJobId \in DOMAIN jobs
    /\ instances < jobs[DailyJobId].max_instances
    /\ StartRun(w)
    /\ instances' = instances + 1
    /\ route' = [route EXCEPT ![w] = "executor"]
    /\ UNCHANGED <<jobs, running, args, response>>

\* collect_daily_jurisprudence returns to the executor
ExecutorReturns(w) ==
    /\ route[w] = "executor"
    /\ Return(w)
    /\ instances' = instances - 1
    /\ route' = [route EXCEPT ![w] = "none"]
    /\ UNCHANGED <<jobs, running, args, response>>

\* add_custom_job(func, trigger_config, job_id, name)
AddCustomJob(cfg) ==
    /\ IF cfg.type = "cron"
       THEN jobs' = WithJob(jobs, CustomJobId, CustomJob(0, 0))
       ELSE jobs' = WithoutJob(jobs, CustomJobId)
    /\ UNCHANGED <<collVars, running, instances, route, args, response>>

\* shutdown_scheduler(): scheduler.shutdown(wait=False); the job stores are shut
\* down, executions in progress go on
ShutdownScheduler ==
    /\ running
    /\ running' = FALSE
    /\ jobs' = NoJobs
    /\ UNCHANGED <<collVars, instances, route, args, response>>

\* the sources publish nothing new
SchedInit ==
    /\ jurisprudencia = <<>>
    /\ enunciados = <<>>
    /\ sources = [a \in Adapters |-> [volatile |-> FALSE, listing |-> <<>>]]
    /\ IdleThreads
    /\ SchedulerStarted

\* request threads and executor threads run side by side
SchedNext ==
    \/ \E t \in Requests, j \in JobIds : RunJobNow(t, j) /\ UNCHANGED <<timer, scrape>>
    \/ \E t \in Requests : RunJobNowReturns(t) /\ UNCHANGED <<timer, scrape>>
    \/ \E t \in Requests, j \in JobIds : RemoveJob(t, j) /\ UNCHANGED <<timer, scrape>>
    \/ \E t \in Requests, data \in Bodies :
           UpdateScheduleConfig(t, data) /\ UNCHANGED <<timer, scrape>>
    \/ \E t \in Requests : AddJob(t) /\ UNCHANGED <<timer, scrape>>
    \/ \E w \in Workers : Fire(w) /\ UNCHANGED <<timer, scrape>>
    \/ \E w \in Workers : ExecutorReturns(w) /\ UNCHANGED <<timer, scrape>>
    \/ \E t \in Threads : Collect(t) /\ UNCHANGED <<schedVars, scrape>>
    \/ \E t \in Threads : CommitOk(t) /\ UNCHANGED <<schedVars, scrape>>
    \/ \E cfg \in {[type |-> "cron"], [type |-> "interval"]} :
           AddCustomJob(cfg) /\ UNCHANGED <<timer, scrape>>
    \/ ShutdownScheduler /\ UNCHANGED <<timer, scrape>>

SchedSpec == SchedInit /\ [][SchedNext]_vars

(* --------------------------- trigger evaluation ------------------------ *)
\* the scheduler finds the daily job due: its next run time has come
Due ==
    /\ running
    /\ DailyJobId \in DOMAIN jobs
    /\ timer.next_run <= timer.now

\* the run time the evaluation is for: run times missed before it are
\* coalesced into the latest one
RunTime == timer.next_run + DayTicks * ((timer.now - timer.next_run) \div DayTicks)

\* how late the evaluation is for that run time, in seconds
Lateness == (timer.now - RunTime) * TickSeconds

\* a check that never finds a run late
WithinGraceAlways(job, late) == TRUE

\* the run is not later than misfire_grace_time
WithinGrace(job, late) == late <= job.misfire_grace_time

\* the evaluation is over: its outcome is logged and the job's next run time
\* is the first scheduled time after now
Evaluated(outcome) ==
    timer' = [timer EXCEPT
                 !.next_run = RunTime + DayTicks,
                 !.log = Append(@, [run_time |-> RunTime, at |-> timer.now,
                                    outcome |-> outcome])]

\* the clock advances
Tick ==
    /\ timer.now < MaxTime
    /\ timer' = [timer EXCEPT !.now = @ + 1]
    /\ UNCHANGED <<collVars, jobs, running, instances, route, args, response>>

\* the job is due and in time: the executor starts an execution
TriggerRuns(w) ==
    /\ Due
    /\ WithinGrace(jobs[DailyJobId], Lateness)
    /\ Fire(w)
    /\ Evaluated("executed")

\* the job is due but later than the grace time: the run is missed
TriggerMissed ==
    /\ Due
    /\ instances < jobs[DailyJobId].max_instances
    /\ ~WithinGrace(jobs[DailyJobId], Lateness)
    /\ Evaluated("missed")
    /\ UNCHANGED <<collVars, jobs, running, instances, route, args, response>>

\* the job is due while max_instances executions of it are in progress: the
\* executor refuses the run
TriggerSkipped ==
    /\ Due
    /\ instances >= jobs[DailyJobId].max_instances
    /\ Evaluated("max_instances")
    /\ UNCHANGED <<collVars, jobs, running, instances, route, args, response>>

\* the scheduler thread and the executor's threads, no request
TimerNext ==
    \/ Tick /\ UNCHANGED scrape
    \/ \E w \in Workers : TriggerRuns(w) /\ UNCHANGED scrape
    \/ TriggerMissed /\ UNCHANGED scrape
    \/ TriggerSkipped /\ UNCHANGED scrape
    \/ \E w \in Workers : Collect(w) /\ UNCHANGED <<schedVars, scrape>>
    \/ \E w \in Workers : CommitOk(w) /\ UNCHANGED <<schedVars, scrape>>
    \/ \E w \in Workers : ExecutorReturns(w) /\ UNCHANGED <<timer, scrape>>

TimerSpec == SchedInit /\ [][TimerNext]_vars

(* ------------------- manual runs beside the trigger --------------------- *)
\* the scheduler with its clock, and one caller of run_job_now
ManualNext ==
    \/ Tick /\ UNCHANGED scrape
    \/ \E w \in Workers : TriggerRuns(w) /\ UNCHANGED scrape
    \/ TriggerMissed /\ UNCHANGED scrape
    \/ TriggerSkipped /\ UNCHANGED scrape
    \/ \E j \in JobIds : RunJobNow(Caller, j) /\ UNCHANGED <<timer, scrape>>
    \/ RunJobNowReturns(Caller) /\ UNCHANGED <<timer, scrape>>
    \/ \E t \in Workers \cup {Caller} : Collect(t) /\ UNCHANGED <<schedVars, scrape>>
    \/ \E t \in Workers \cup {Caller} : CommitOk(t) /\ UNCHANGED <<schedVars, scrape>>
    \/ RollbackRaises(Caller) /\ UNCHANGED <<schedVars, scrape>>
    \/ \E w \in Workers : ExecutorReturns(w) /\ UNCHANGED <<timer, scrape>>
    \/ AddCustomJob([type |-> "cron"]) /\ UNCHANGED <<timer, scrape>>

ManualSpec == SchedInit /\ [][ManualNext]_vars

(* ------------------------------ the adapters ---------------------------- *)
\* how a GET ends: with a final status, or with an exception of the transport
Fetches == {"200", "304", "404", "500", "timeout", "dns"}

StatusOf(f) ==
    CASE f = "200" -> 200
      [] f = "304" -> 304
      [] f = "404" -> 404
      [] f = "500" -> 500
      [] OTHER -> 0

\* session.get raises a requests.RequestException
GetRaises(f) == f \in {"timeout", "dns"}

\* a check of the status that lets client errors through
RaiseForServerError(f) == ~GetRaises(f) /\ StatusOf(f) >= 500 /\ StatusOf(f) < 600

\* response.raise_for_status() raises requests.HTTPError, which is a
\* RequestException, for the statuses 400 to 599
RaiseForStatus(f) == ~GetRaises(f) /\ StatusOf(f) >= 400 /\ StatusOf(f) < 600

\* the value get_page returns for a failure
None == [none |-> TRUE, raised |-> FALSE, status |-> 0, text |-> <<>>]

\* BaseScraper.get_page: the response, or None when the request raised; the
\* except clause lets no RequestException out
GetPage(f, text) ==
    IF GetRaises(f) \/ RaiseForStatus(f)
    THEN None
    ELSE [none |-> FALSE, raised |-> FALSE, status |-> StatusOf(f), text |-> text]

\* 'if not response': None, or a response that is not ok
Not(got) == got.none \/ got.status >= 400

\* the urls of candidates
Urls == {"u1", "u2"}

\* a result item of a search page: its link, or no link
Items == Urls \cup {"nolink"}

SearchPages == UNION {[1..n -> Items] : n \in 0..MaxItems}

\* values of days_back
DaysBack == {0, 1, 7}

\* STJScraper._extract_basic_info over the first n items: an item without a
\* link gives None and is left out
RECURSIVE BasicInfos(_, _)
BasicInfos(items, n) ==
    IF n = 0
    THEN <<>>
    ELSE LET before == BasicInfos(items, n - 1)
         IN  IF items[n] = "nolink"
             THEN before
             ELSE Append(before, [url |-> items[n], tribunal |-> "STJ"])

\* STJScraper.search_recent_decisions: days_back has no part in the request
SearchRecentDecisions(days_back, f, page) ==
    LET got == GetPage(f, page)
    IN  IF Not(got)
        THEN <<>>
        ELSE BasicInfos(got.text, Len(got.text))

\* no details
Absent == [none |-> TRUE, value |-> <<>>]

Some(v) == [none |-> FALSE, value |-> v]

\* the decision on the page at a url
DetailsOf(url) ==
    [tribunal |-> "STJ", numero_processo |-> IF url = "u1" THEN 1 ELSE 2,
     ementa |-> "a"]

\* how the request for a decision's page ends: the fetch, and whether the page
\* parses
DetailAnswers ==
    {[fetch |-> "200", parses |-> TRUE], [fetch |-> "200", parses |-> FALSE],
     [fetch |-> "404", parses |-> TRUE], [fetch |-> "timeout", parses |-> TRUE]}

\* STJScraper.extract_decision_details: None when the page is not fetched or
\* the parse raises
ExtractDecisionDetails(url, answer) ==
    IF Not(GetPage(answer.fetch, <<>>)) \/ ~answer.parses
    THEN Absent
    ELSE Some(DetailsOf(url))

\* a loop that stops at the first candidate without details
RECURSIVE ExtractUntilAbsent(_, _, _)
ExtractUntilAbsent(candidates, answers, n) ==
    IF n = 0
    THEN [calls |-> <<>>, returns |-> <<>>, detailed |-> <<>>]
    ELSE LET before == ExtractUntilAbsent(candidates, answers, n - 1)
             details == ExtractDecisionDetails(candidates[n].url, answers[n])
         IN  IF Len(before.returns) < n - 1 \/ details.none
             THEN before
             ELSE [calls |-> Append(before.calls, candidates[n].url),
                   returns |-> Append(before.returns, details),
                   detailed |-> Append(before.detailed, details.value)]

\* the for loop of BaseScraper.get_recent_jurisprudence over the first n
\* candidates: the calls of extract_decision_details, what they returned and
\* the details kept
RECURSIVE ExtractEach(_, _, _)
ExtractEach(candidates, answers, n) ==
    IF n = 0
    THEN [calls |-> <<>>, returns |-> <<>>, detailed |-> <<>>]
    ELSE LET before == ExtractEach(candidates, answers, n - 1)
             details == ExtractDecisionDetails(candidates[n].url, answers[n])
         IN  [calls |-> Append(before.calls, candidates[n].url),
              returns |-> Append(before.returns, details),
              detailed |-> IF details.none
                           THEN before.detailed
                           ELSE Append(before.detailed, details.value)]

\* BaseScraper.get_recent_jurisprudence of the STJ adapter
GetRecentJurisprudence(days_back, f, page, answers) ==
    LET candidates == SearchRecentDecisions(days_back, f, page)
    IN  [candidates |-> candidates] @@ ExtractEach(candidates, answers, Len(candidates))

\* the pages of enunciados: the three of FONAJE, in the order of fonaje_urls,
\* and the one of the CNJ
EnunPages == <<"civeis", "criminais", "fazenda_publica", "cnj">>

\* a paragraph of a page: an enunciado with its number, or other text
Paragraphs == {[is_enunciado |-> TRUE, numero |-> 1, texto |-> "a"],
               [is_enunciado |-> FALSE, numero |-> 0, texto |-> "b"]}

\* how the request for a page of enunciados ends, and the paragraphs on it
EnunAnswers ==
    [fetch : {"200"}, text : {<<>>} \cup {<<p>> : p \in Paragraphs}]
    \cup [fetch : {"404", "timeout"}, text : {<<>>}]

\* tipo.upper()
Upper(tipo) ==
    CASE tipo = "civeis" -> "CIVEIS"
      [] tipo = "criminais" -> "CRIMINAIS"
      [] tipo = "fazenda_publica" -> "FAZENDA_PUBLICA"
      [] OTHER -> tipo

\* EnunciadosScraper._parse_enunciado_text over the first n paragraphs that
\* _is_enunciado accepts
RECURSIVE ParseEnunciados(_, _, _, _)
ParseEnunciados(text, orgao, tipo, n) ==
    IF n = 0
    THEN <<>>
    ELSE LET before == ParseEnunciados(text, orgao, tipo, n - 1)
         IN  IF text[n].is_enunciado
             THEN Append(before, [orgao |-> orgao, tipo |-> Upper(tipo),
                                  numero |-> text[n].numero, texto |-> text[n].texto])
             ELSE before

\* EnunciadosScraper._scrape_fonaje_enunciados and _scrape_cnj_enunciados
ScrapeEnunciados(orgao, tipo, answer) ==
    LET got == GetPage(answer.fetch, answer.text)
    IN  IF Not(got)
        THEN <<>>
        ELSE ParseEnunciados(got.text, orgao, tipo, Len(got.text))

\* EnunciadosScraper.get_all_enunciados: the enunciados of the first n pages
RECURSIVE AllEnunciados(_, _)
AllEnunciados(web, n) ==
    IF n = 0
    THEN <<>>
    ELSE AllEnunciados(web, n - 1)
         \o (IF EnunPages[n] = "cnj"
             THEN ScrapeEnunciados("CNJ", "GERAL", web[n])
             ELSE ScrapeEnunciados("FONAJE", EnunPages[n], web[n]))

GetAllEnunciados(web) == AllEnunciados(web, Len(EnunPages))

\* a search that returns nothing for a window of no days
SearchWithinWindow(days_back, web) ==
    IF days_back = 0 THEN <<>> ELSE GetAllEnunciados(web)

\* EnunciadosScraper.search_recent_decisions
SearchAllEnunciados(days_back, web) == GetAllEnunciados(web)

\* EnunciadosScraper.extract_decision_details
ExtractNothing(url) == Absent

\* what the pages of enunciados may answer
EnunWebs == [1..Len(EnunPages) -> EnunAnswers]

(* ------------------------ calls of the adapters ------------------------- *)
\* an operation of an adapter is called and returns
Called(call) ==
    /\ scrape.call = NoCall
    /\ scrape' = [scrape EXCEPT !.call = call]
    /\ UNCHANGED <<collVars, schedVars>>

CallGetPage ==
    \E f \in Fetches, page \in SearchPages :
        Called([fn |-> "get_page", fetch |-> f, out |-> GetPage(f, page)])

CallSearch ==
    \E d \in DaysBack, f \in Fetches, page \in SearchPages :
        Called([fn |-> "search_recent_decisions", source |-> "STJ",
                days_back |-> d, fetch |-> f,
                out |-> SearchRecentDecisions(d, f, page)])

CallExtract ==
    \E url \in Urls, answer \in DetailAnswers :
        Called([fn |-> "extract_decision_details", source |-> "STJ",
                url |-> url, fetch |-> answer.fetch,
                out |-> ExtractDecisionDetails(url, answer)])

CallGetRecentJurisprudence ==
    \E d \in DaysBack, f \in Fetches, page \in SearchPages,
       answers \in [1..MaxItems -> DetailAnswers] :
        Called([fn |-> "get_recent_jurisprudence", source |-> "STJ",
                days_back |-> d]
               @@ GetRecentJurisprudence(d, f, page, answers))

\* search_recent_decisions of the ENUNCIADOS adapter, and what
\* get_all_enunciados gives on the same pages
CallSearchEnunciados ==
    \E d \in DaysBack, web \in EnunWebs :
        Called([fn |-> "search_recent_decisions", source |-> "ENUNCIADOS",
                days_back |-> d, out |-> SearchAllEnunciados(d, web),
                corpus |-> GetAllEnunciados(web)])

CallExtractEnunciados ==
    \E url \in Urls \cup {"none"} :
        Called([fn |-> "extract_decision_details", source |-> "ENUNCIADOS",
                url |-> url, out |-> ExtractNothing(url)])

\* the caller is done with what the call returned
Forget ==
    /\ scrape.call # NoCall
    /\ scrape' = [scrape EXCEPT !.call = NoCall]
    /\ UNCHANGED <<collVars, schedVars>>

CallNext ==
    \/ CallGetPage
    \/ CallSearch
    \/ CallExtract
    \/ CallGetRecentJurisprudence
    \/ CallSearchEnunciados
    \/ CallExtractEnunciados
    \/ Forget

CallSpec == SchedInit /\ [][CallNext]_vars

(* -------------------- a run over the adapters' calls -------------------- *)
\* a fetch or a parse failed inside the call of the source's adapter
Faulty(a) == scrape' = [scrape EXCEPT !.faults = @ \cup {a}]

\* a failure in get_recent_jurisprudence of the STJ adapter
FaultIn(got, f, page) ==
    \/ GetPage(f, page).none
    \/ \E i \in DOMAIN got.returns : got.returns[i].none

\* a call whose failure reaches the except clause of the run
CollectSTJPropagates(t) ==
    /\ Adapter(t) = "STJ"
    /\ \E d \in DaysBack, f \in Fetches, page \in SearchPages,
          answers \in [1..MaxItems -> DetailAnswers] :
         LET got == GetRecentJurisprudence(d, f, page, answers)
         IN  IF FaultIn(got, f, page)
             THEN /\ pc[t] = "collect"
                  /\ results' = Failure(t)
                  /\ error_log' = error_log \cup {run_id[t]}
                  /\ EndIteration(t)
                  /\ UNCHANGED <<dbVars, sources, decisions, saved_count, run_id, runs>>
                  /\ Faulty("STJ")
             ELSE CollectBatch(t, got.detailed) /\ UNCHANGED scrape
    /\ UNCHANGED schedVars

\* scraper.get_recent_jurisprudence(days_back) of the STJ adapter returns what
\* it obtained and _save_jurisprudencia stages it
CollectSTJ(t) ==
    /\ Adapter(t) = "STJ"
    /\ \E d \in DaysBack, f \in Fetches, page \in SearchPages,
          answers \in [1..MaxItems -> DetailAnswers] :
         LET got == GetRecentJurisprudence(d, f, page, answers)
         IN  /\ CollectBatch(t, got.detailed)
             /\ IF FaultIn(got, f, page) THEN Faulty("STJ") ELSE UNCHANGED scrape
    /\ UNCHANGED schedVars

\* scraper.get_all_enunciados() returns what it obtained and _save_enunciados
\* stages it
CollectEnunciados(t) ==
    /\ Adapter(t) = "ENUNCIADOS"
    /\ \E web \in EnunWebs :
         /\ CollectBatch(t, GetAllEnunciados(web))
         /\ IF \E n \in DOMAIN web : GetPage(web[n].fetch, web[n].text).none
            THEN Faulty("ENUNCIADOS")
            ELSE UNCHANGED scrape
    /\ UNCHANGED schedVars

\* the adapters whose code is not here return nothing or raise
CollectOther(t) ==
    /\ Adapter(t) \in {"STF", "TJSP"}
    /\ Collect(t) \/ CollectRaises(t)
    /\ UNCHANGED <<schedVars, scrape>>

\* a run begins: no failure yet
AdapterStart(t) ==
    /\ NoRunActive
    /\ StartRun(t)
    /\ scrape' = [scrape EXCEPT !.faults = {}]
    /\ UNCHANGED schedVars

AdapterNext ==
    \/ AdapterStart(Caller)
    \/ CollectOther(Caller)
    \/ CollectSTJ(Caller)
    \/ CollectEnunciados(Caller)
    \/ CommitOk(Caller) /\ UNCHANGED <<schedVars, scrape>>
    \/ CommitFails(Caller) /\ UNCHANGED <<schedVars, scrape>>
    \/ Return(Caller) /\ UNCHANGED <<schedVars, scrape>>

AdapterSpec == SchedInit /\ [][AdapterNext]_vars

(* ------------------------------- start-up ------------------------------- *)
\* init_app has returned: the daily job is registered, and start_scheduler
\* either started the scheduler or caught the exception of scheduler.start()
\* and logged it
BootInit ==
    /\ jurisprudencia = <<>>
    /\ enunciados = <<>>
    /\ sources = [a \in Adapters |-> [volatile |-> FALSE, listing |-> <<>>]]
    /\ IdleThreads
    /\ jobs = WithJob(NoJobs, DailyJobId, DailyJob(9, 0))
    /\ running \in BOOLEAN
    /\ instances = 0
    /\ route = [t \in Threads |-> "none"]
    /\ args = [t \in Threads |-> NoArgs]
    /\ response = NoResponse
    /\ timer = [now |-> 0, next_run |-> DayTicks, log |-> <<>>]

\* the application serves requests after init_app; the trigger fires if the
\* scheduler runs
BootNext ==
    \/ \E j \in JobIds : RunJobNow(Caller, j) /\ UNCHANGED <<timer, scrape>>
    \/ RunJobNowReturns(Caller) /\ UNCHANGED <<timer, scrape>>
    \/ \E j \in JobIds : RemoveJob(Caller, j) /\ UNCHANGED <<timer, scrape>>
    \/ \E w \in Workers : Fire(w) /\ UNCHANGED <<timer, scrape>>
    \/ \E w \in Workers : ExecutorReturns(w) /\ UNCHANGED <<timer, scrape>>
    \/ \E t \in Workers \cup {Caller} : Collect(t) /\ UNCHANGED <<schedVars, scrape>>
    \/ \E t \in Workers \cup {Caller} : CommitOk(t) /\ UNCHANGED <<schedVars, scrape>>
    \/ AddCustomJob([type |-> "cron"]) /\ UNCHANGED <<timer, scrape>>

BootSpec == BootInit /\ [][BootNext]_vars

(* ------------------------- derived quantities -------------------------- *)
Keys(table) == {KeyOf(table[i]) : i \in 1..Len(table)}

RowCount == Len(jurisprudencia) + Len(enunciados)

RECURSIVE SumCounts(_)
SumCounts(entries) ==
    IF entries = <<>> THEN 0 ELSE Head(entries).count + SumCounts(Tail(entries))

SourcesOf(entries) == {entries[i].source : i \in 1..Len(entries)}

\* the iteration of thread t ends with an exception reaching the run's except clause
Raises(t) == CollectRaises(t) \/ RollbackRaises(t)

\* rows are only ever appended to a table
AppendOnly(old, new) ==
    /\ Len(new) >= Len(old)
    /\ \A i \in 1..Len(old) : new[i] = old[i]

(* ------------------------------- claims -------------------------------- *)

\* C1: per-source failure isolation. An iteration that raises adds exactly one
\* error entry tagged with its source, adds no success entry and nothing to
\* total_collected, and the loop goes on to the next adapter; an iteration that
\* does not raise adds exactly one success entry; so the run returns with one
\* entry per adapter, and total_collected is the sum of the success counts.
C1_RaisingStep ==
    \A t \in Threads :
        Raises(t) =>
            /\ results'[t].errors = Append(results[t].errors, [source |-> Registry[idx[t]]])
            /\ results'[t].success = results[t].success
            /\ results'[t].total_collected = results[t].total_collected
            /\ IF idx[t] < NumAdapters
               THEN pc'[t] = "collect" /\ idx'[t] = idx[t] + 1
               ELSE pc'[t] = "return"

C1_ReturningStep ==
    \A t \in Threads :
        (CommitOk(t) \/ CommitFails(t)) =>
            /\ results'[t].errors = results[t].errors
            /\ Len(results'[t].success) = Len(results[t].success) + 1
            /\ results'[t].success[Len(results'[t].success)].source = Registry[idx[t]]

C1_Returned ==
    \A t \in Threads :
        pc[t] = "return" =>
            /\ Len(results[t].success) + Len(results[t].errors) = NumAdapters
            /\ SourcesOf(results[t].success) \cup SourcesOf(results[t].errors) = Adapters
            /\ results[t].total_collected = SumCounts(results[t].success)

C1_Isolation == []C1_Returned /\ [][C1_RaisingStep /\ C1_ReturningStep]_vars

\* a run returns with errors for STF and ENUNCIADOS and rows saved for the others
C1_Witness ==
    /\ pc[Caller] = "return"
    /\ SourcesOf(results[Caller].errors) = {"STF", "ENUNCIADOS"}
    /\ SourcesOf(results[Caller].success) = {"STJ", "TJSP"}
    /\ results[Caller].total_collected = 2

\* no two rows of a table share the lookup key
UniqueKeys(table) ==
    \A i, j \in 1..Len(table) : KeyOf(table[i]) = KeyOf(table[j]) => i = j

\* the keys of a list of records
KeysOfBatch(batch) == {KeyOf(batch[i]) : i \in 1..Len(batch)}

\* the first record of the list that carries key k
FirstWithKey(batch, k) ==
    batch[CHOOSE i \in 1..Len(batch) :
            KeyOf(batch[i]) = k /\ \A j \in 1..(i - 1) : KeyOf(batch[j]) # k]

\* the step ends an iteration in which a commit failed
CommitFailure(t) == CommitFails(t) \/ RollbackRaises(t)

\* the entry the step appended to results['success']
LastSuccess(t) == results'[t].success[Len(results'[t].success)]

\* C2: uniqueness under sequential runs.  When the runs of the collection do
\* not overlap, whatever lists the adapters return (duplicates inside a list
\* and across runs included) and whichever commits fail, neither table ever
\* holds two rows with the same key, (tribunal, numero_processo) for decisions
\* and (orgao, tipo, numero) for enunciados, and every stored row stays as it
\* was first stored.
C2_Unique == UniqueKeys(jurisprudencia) /\ UniqueKeys(enunciados)

C2_FirstKept ==
    /\ AppendOnly(jurisprudencia, jurisprudencia')
    /\ AppendOnly(enunciados, enunciados')

C2_Uniqueness == []C2_Unique /\ [][C2_FirstKept]_vars

\* the second run, after a failure in the first, holds a list that carries one
\* key twice with different texts, and only the first record is staged
C2_Witness ==
    /\ run_id[Caller] = 2
    /\ 1 \in error_log
    /\ RowCount >= 1
    /\ pc[Caller] = "commit"
    /\ Len(decisions[Caller]) = 2
    /\ KeyOf(decisions[Caller][1]) = KeyOf(decisions[Caller][2])
    /\ decisions[Caller][1] # decisions[Caller][2]
    /\ session[Caller] = <<decisions[Caller][1]>>

\* C3: idempotence of the collection.  When the collection is run twice in a
\* row, every adapter returns on the second run the list it returned on the
\* first, and no commit of the first run failed, the second run reports
\* total_collected = 0 and leaves both tables exactly as the first run left
\* them.
C3_SecondRunTotal ==
    \A t \in Threads : run_id[t] = 2 /\ 1 \notin error_log =>
        results[t].total_collected = 0

C3_SecondRunStore ==
    \A t \in Threads : run_id[t] = 2 /\ 1 \notin error_log =>
        jurisprudencia' = jurisprudencia /\ enunciados' = enunciados

C4_Staged ==
    \A t \in Threads : pc[t] = "commit" =>
        LET table == TableOf(Adapter(t))
            newKeys == KeysOfBatch(decisions[t]) \ Keys(table)
        IN  /\ saved_count[t] = Cardinality(newKeys)
            /\ Len(session[t]) = Cardinality(newKeys)
            /\ KeysOfBatch(session[t]) = newKeys
            /\ \A i \in 1..Len(session[t]) :
                   session[t][i] = FirstWithKey(decisions[t], KeyOf(session[t][i]))

C4_Saved ==
    \A t \in Threads : CommitOk(t) =>
        LET old == TableOf(Adapter(t))
            new == IF Adapter(t) = "ENUNCIADOS" THEN enunciados' ELSE jurisprudencia'
            newKeys == KeysOfBatch(decisions[t]) \ Keys(old)
        IN  /\ AppendOnly(old, new)
            /\ Len(new) = Len(old) + Cardinality(newKeys)
            /\ Keys(new) = Keys(old) \cup newKeys
            /\ \A i \in (Len(old) + 1)..Len(new) :
                   new[i] = FirstWithKey(decisions[t], KeyOf(new[i]))
            /\ LastSuccess(t).count = Cardinality(newKeys)

C4_FirstWriteWins == []C4_Staged /\ [][C4_Saved]_vars

\* a list of a stored key (with another text) and a new key was saved: one
\* row was added, the stored row kept its text
C4_Witness ==
    /\ pc[Caller] = "collect"
    /\ idx[Caller] = 2
    /\ Len(jurisprudencia) = 2
    /\ Len(decisions[Caller]) = 2
    /\ KeyOf(decisions[Caller][1]) = KeyOf(jurisprudencia[1])
    /\ decisions[Caller][1] # jurisprudencia[1]
    /\ decisions[Caller][2] = jurisprudencia[2]
    /\ results[Caller].success = <<[source |-> "STF", count |-> 1]>>

\* C6: batch atomicity on commit failure.  When the commit of a batch fails,
\* none of the rows staged for that batch is in the table afterwards, both
\* tables are as they were before the batch, and the count reported for the
\* source is 0 (or the source is reported as an error when the rollback
\* itself raised).
C6_FailedBatch ==
    \A t \in Threads : CommitFailure(t) =>
        /\ jurisprudencia' = jurisprudencia
        /\ enunciados' = enunciados
        /\ KeysOfBatch(session[t]) \cap
               (Keys(jurisprudencia') \cup Keys(enunciados')) = {}
        /\ session'[t] = <<>>
        /\ results'[t].total_collected = results[t].total_collected
        /\ CommitFails(t) => LastSuccess(t) = [source |-> Adapter(t), count |-> 0]

C6_BatchAtomicity == [][C6_FailedBatch]_vars

\* the commit of a list of two new keys failed in the first run: count 0 is
\* reported and no row is stored
C6_Witness ==
    /\ run_id[Caller] = 1
    /\ pc[Caller] = "collect"
    /\ idx[Caller] = 2
    /\ Cardinality(KeysOfBatch(decisions[Caller])) = 2
    /\ saved_count[Caller] = 0
    /\ results[Caller].success = <<[source |-> "STF", count |-> 0]>>
    /\ 1 \in error_log
    /\ RowCount = 0

\* C7: transactional independence.  A failure while adapter k is processed
\* (its call raises, its commit fails, or the rollback raises) removes no row
\* that an earlier adapter committed, and the loop goes on to the adapters
\* after k, whose batches are committed.
C7_FailingStep ==
    \A t \in Threads : (CollectRaises(t) \/ CommitFailure(t)) =>
        /\ jurisprudencia' = jurisprudencia
        /\ enunciados' = enunciados
        /\ IF idx[t] < NumAdapters
           THEN pc'[t] = "collect" /\ idx'[t] = idx[t] + 1
           ELSE pc'[t] = "return"

C7_NoneSkipped ==
    \A t \in Threads : pc[t] \in {"collect", "commit"} =>
        Len(results[t].success) + Len(results[t].errors) = idx[t] - 1

C7_Independence == []C7_NoneSkipped /\ [][C7_FailingStep]_vars

\* STF committed a row, the commit of STJ failed, TJSP committed a row after it
C7_Witness ==
    /\ pc[Caller] = "collect"
    /\ idx[Caller] = 4
    /\ results[Caller].success =
           <<[source |-> "STF", count |-> 1], [source |-> "STJ", count |-> 0],
             [source |-> "TJSP", count |-> 1]>>
    /\ run_id[Caller] = 1
    /\ 1 \in error_log
    /\ results[Caller].errors = <<>>
    /\ Len(jurisprudencia) = 2
    /\ jurisprudencia[1].tribunal = "STF"
    /\ jurisprudencia[2].tribunal = "TJSP"

\* C8: reported counts equal persisted rows.  In a run that no other run
\* overlaps, the count reported for a source is the number of rows its commit
\* added, total_collected is the sum of the reported counts, and the rows of
\* the two tables grow by exactly total_collected over the run.
C8_Step ==
    \A t \in Threads : pc[t] # "idle" /\ pc'[t] # "idle" =>
        /\ results'[t].total_collected - results[t].total_collected
               = (Len(jurisprudencia') + Len(enunciados')) - RowCount
        /\ Len(results'[t].success) > Len(results[t].success) =>
               LastSuccess(t).count
                   = (Len(jurisprudencia') + Len(enunciados')) - RowCount

C8_FirstRun ==
    \A t \in Threads : run_id[t] = 1 /\ pc[t] # "idle" =>
        /\ results[t].total_collected = RowCount
        /\ results[t].total_collected = SumCounts(results[t].success)

C8_CountsMatch == []C8_FirstRun /\ [][C8_Step]_vars

\* the first run returns a total of 2 after lists with skipped records and a
\* failed commit, and the tables hold 2 rows
C8_Witness ==
    /\ run_id[Caller] = 1
    /\ pc[Caller] = "return"
    /\ results[Caller].total_collected = 2
    /\ RowCount = 2
    /\ 1 \in error_log
    /\ \E i \in 1..Len(results[Caller].success) : results[Caller].success[i].count = 0

\* threads that execute collect_daily_jurisprudence, started by the executor
\* or by run_job_now
Executing == {t \in Threads : route[t] \in {"executor", "run_job_now"}}

\* C5: singleton execution with manual runs.  At no time are two executions
\* of the job 'daily_jurisprudence' in progress, whether the trigger or
\* run_job_now calls of concurrent callers started them.
C5_Singleton == Cardinality(Executing) <= 1

\* C9: protection of the built-in job.  DELETE /jobs/daily_jurisprudence is
\* answered 400 with success false in every state of the scheduler and leaves
\* the job table as it was, so a listed daily job is still listed afterwards.
C9_Rejected ==
    \A t \in Threads : RemoveJob(t, DailyJobId) =>
        /\ response' = Response(t, "remove_job", DailyJobId, 400, FALSE, "protected")
        /\ jobs' = jobs
        /\ DailyJobId \in ListedJobs => DailyJobId \in DOMAIN jobs'

C9_Answer ==
    response.route = "remove_job" /\ response.job_id = DailyJobId =>
        response.status = 400 /\ ~response.success

C9_Protection == []C9_Answer /\ [][C9_Rejected]_vars

\* the removal of the daily job was refused while the daily job, rescheduled
\* to 23:59, and a custom job are listed; the other caller is in a manual run
C9_Witness ==
    /\ response = Response("req1", "remove_job", DailyJobId, 400, FALSE, "protected")
    /\ ListedJobs = JobIds
    /\ jobs[DailyJobId] = DailyJob(23, 59)
    /\ route["req2"] = "run_job_now"

\* the request body names no hour, an hour outside 0..23 or a minute outside 0..59
C10_Invalid(data) ==
    \/ "hour" \notin DOMAIN data
    \/ data.hour \notin 0..23
    \/ MinuteOf(data) \notin 0..59

\* C10: reconfigure validation.  PUT /schedule-config without an hour, with an
\* hour outside 0..23 or a minute outside 0..59 is refused by the checks of
\* the route, and a refused request is answered 400 and leaves the job table
\* as it was; with an hour in 0..23 and a minute in 0..59 (0 when the body
\* names none) the request passes the checks, goes on to add the daily job
\* with the requested hour and minute as its trigger, and is answered 200.
C10_RejectsInvalid == \A data \in Bodies : Rejects(data) <=> C10_Invalid(data)

C10_Refused ==
    \A t \in Threads :
        (/\ response' # response
         /\ response' = Response(t, "update_schedule_config", "", 400, FALSE, "invalid")) =>
            jobs' = jobs /\ pc' = pc /\ args' = args

C10_Accepted ==
    \A t \in Threads : pc[t] = "idle" /\ pc'[t] = "add_job" =>
        /\ response' = response
        /\ \E data \in Bodies :
               /\ ~C10_Invalid(data)
               /\ UpdateScheduleConfig(t, data)
               /\ args'[t] = [hour |-> data.hour, minute |-> MinuteOf(data)]

C10_Added ==
    \A t \in Threads : AddJob(t) =>
        /\ DailyJobId \in DOMAIN jobs'
        /\ jobs'[DailyJobId].hour = args[t].hour
        /\ jobs'[DailyJobId].minute = args[t].minute
        /\ response' = Response(t, "update_schedule_config", "", 200, TRUE, "updated")

C10_TriggerInRange ==
    /\ \A t \in Threads : pc[t] = "add_job" =>
           args[t].hour \in 0..23 /\ args[t].minute \in 0..59
    /\ DailyJobId \in DOMAIN jobs =>
           jobs[DailyJobId].hour \in 0..23 /\ jobs[DailyJobId].minute \in 0..59

C10_Validation ==
    /\ [](C10_RejectsInvalid /\ C10_TriggerInRange)
    /\ [][C10_Refused /\ C10_Accepted /\ C10_Added]_vars

\* a reconfiguration to 23:59 succeeded and a later request of the other
\* caller was refused: the daily job still has the 23:59 trigger
C10_Witness ==
    /\ response = Response("req2", "update_schedule_config", "", 400, FALSE, "invalid")
    /\ DailyJobId \in DOMAIN jobs
    /\ jobs[DailyJobId] = DailyJob(23, 59)
    /\ \A t \in Threads : pc[t] = "idle"

\* a PUT /schedule-config request is between its remove_job and its add_job
Reconfiguring == \E t \in Threads : pc[t] = "add_job"

\* C11: atomic reconfiguration.  While a reconfiguration of the daily job is
\* being processed, the job 'daily_jurisprudence' is in the job table, so that
\* no status, listing, run_job_now or trigger evaluation finds it absent.
C11_NoWindow == Reconfiguring /\ running => DailyJobId \in ListedJobs

(* ------------------- C12: overlapping firings are dropped ---------------- *)
\* the outcomes of the trigger evaluations so far
Log == timer.log

\* the scheduler evaluates the trigger in this step
Evaluates == Len(timer'.log) = Len(timer.log) + 1

\* an execution the executor started is still in progress
ExecutorBusy == \E w \in Workers : route[w] = "executor"

\* the run times whose evaluation had the given outcome
RunTimes(outcome) ==
    {Log[i].run_time : i \in {k \in DOMAIN Log : Log[k].outcome = outcome}}

\* a firing during an execution starts no execution, leaves every thread where
\* it is, and is consumed: the next run time is in the future
C12_OverlapStep ==
    Evaluates /\ ExecutorBusy =>
        /\ timer'.log[Len(timer'.log)].outcome = "max_instances"
        /\ runs' = runs
        /\ pc' = pc
        /\ route' = route
        /\ instances' = instances
        /\ timer'.next_run > timer.now

\* the end of an execution starts no execution
C12_FinishStep ==
    \A w \in Workers :
        ExecutorReturns(w) =>
            /\ runs' = runs
            /\ \A t \in Threads : pc'[t] = pc[t] \/ pc'[t] = "idle"
            /\ timer' = timer

\* executions are started for the accepted firings only: no run time that was
\* refused has an execution
C12_NeverRun ==
    /\ RunTimes("max_instances") \cap RunTimes("executed") = {}
    /\ Cardinality(RunTimes("executed")) = runs

\* C12: overlapping trigger firings are dropped.  A firing of the daily job's
\* trigger while an execution started by an earlier firing is still running
\* starts no execution and is not remembered, and no execution for it happens
\* when the running one finishes.
C12_Dropped == []C12_NeverRun /\ [][C12_OverlapStep /\ C12_FinishStep]_vars

\* the firing of the second day was refused during the execution of the first
\* day's, which has finished since: there was one execution
C12_Witness ==
    /\ Len(Log) = 2
    /\ Log[1].outcome = "executed"
    /\ Log[2].outcome = "max_instances"
    /\ ~ExecutorBusy
    /\ instances = 0
    /\ runs = 1

(* ------------------------ C13: misfire grace window ---------------------- *)
\* the grace window the daily job is added with, in seconds
GraceWindow == 3600

\* the lateness of the i-th evaluation for its run time, in seconds
LatenessOf(i) == (Log[i].at - Log[i].run_time) * TickSeconds

\* an evaluation with no execution in progress executes the job when the
\* lateness is within the window, and does not when it exceeds it
C13_EvaluationStep ==
    Evaluates /\ ~ExecutorBusy /\ instances = 0 =>
        IF Lateness < GraceWindow
        THEN /\ timer'.log[Len(timer'.log)].outcome = "executed"
             /\ runs' = runs + 1
        ELSE Lateness > GraceWindow =>
             /\ timer'.log[Len(timer'.log)].outcome = "missed"
             /\ runs' = runs
             /\ pc' = pc

\* a run time is evaluated once, every execution was within the window, and
\* every missed run was beyond it
C13_Once ==
    \A i \in DOMAIN Log :
        /\ \A k \in DOMAIN Log : i < k => Log[i].run_time < Log[k].run_time
        /\ Log[i].outcome = "executed" => LatenessOf(i) <= GraceWindow
        /\ Log[i].outcome = "missed" => LatenessOf(i) > GraceWindow

\* nothing is replayed: an evaluation is for the latest scheduled time only,
\* and after it nothing is due before the next scheduled time
C13_NoReplay ==
    /\ \A i \in DOMAIN Log : Log[i].at - Log[i].run_time < DayTicks
    /\ Log # <<>> => timer.next_run = Log[Len(Log)].run_time + DayTicks
    /\ Cardinality(RunTimes("executed")) = runs

\* C13: misfire grace window.  When the scheduler evaluates the daily job's
\* trigger after its scheduled time, the job is executed exactly once if the
\* lateness is less than the grace window of one hour, and not at all for that
\* scheduled time if the lateness exceeds it; missed firings are never
\* accumulated and replayed.
C13_GraceWindow == [](C13_Once /\ C13_NoReplay) /\ [][C13_EvaluationStep]_vars

\* the first day's run was evaluated 3 ticks late and missed, the second day's
\* 1 tick late and executed: one execution
C13_Witness ==
    /\ Len(Log) = 2
    /\ Log[1] = [run_time |-> DayTicks, at |-> DayTicks + 3, outcome |-> "missed"]
    /\ Log[2] = [run_time |-> 2 * DayTicks, at |-> 2 * DayTicks + 1,
                 outcome |-> "executed"]
    /\ runs = 1

(* ----------------------- C14: remove of an absent job -------------------- *)
\* remove_job of a job id that is not in the job table answers with a failure
\* that says so and leaves the job table as it is
C14_AbsentStep ==
    \A t \in Requests, j \in JobIds :
        RemoveJob(t, j) /\ j # DailyJobId /\ j \notin DOMAIN jobs =>
            /\ jobs' = jobs
            /\ response' = Response(t, "remove_job", j, 400, FALSE, "not found")
            /\ pc' = pc

\* remove_job of a job id that is in the job table removes that job and leaves
\* every other job as it is
C14_PresentStep ==
    \A t \in Requests, j \in JobIds :
        RemoveJob(t, j) /\ j # DailyJobId /\ j \in DOMAIN jobs =>
            /\ DOMAIN jobs' = DOMAIN jobs \ {j}
            /\ \A k \in DOMAIN jobs' : jobs'[k] = jobs[k]
            /\ response'.success

\* the remove_job that update_schedule_config calls for the daily job removes
\* the daily job, when it is there, and no other
C14_DailyStep ==
    \A t \in Requests :
        pc[t] = "idle" /\ pc'[t] = "add_job" =>
            /\ DOMAIN jobs' = DOMAIN jobs \ {DailyJobId}
            /\ \A k \in DOMAIN jobs' : jobs'[k] = jobs[k]

\* C14: remove of an absent job.  remove_job(job_id) for a job id that is not
\* in the job table returns a failure result (success false, a not-found
\* message) without raising and leaves the job table unchanged; remove_job of
\* a job id that is in the table removes exactly that job and no other.
C14_RemoveJob == [][C14_AbsentStep /\ C14_PresentStep /\ C14_DailyStep]_vars

\* the removal of the custom job, which is not in the table, was refused; the
\* daily job, rescheduled to 23:59, is still there
C14_Witness ==
    /\ response = Response("req1", "remove_job", CustomJobId, 400, FALSE, "not found")
    /\ DOMAIN jobs = {DailyJobId}
    /\ jobs[DailyJobId] = DailyJob(23, 59)

(* -------------------------- C15: run_job_now outcomes -------------------- *)
\* what run_job_now must leave alone: the job table and the next run time
C15_Untouched == jobs' = jobs /\ timer' = timer

\* no callback is executed in this step
C15_NoCallback == runs' = runs /\ pc' = pc /\ instances' = instances

\* a job id that is not in the table: not-found failure, no callback (the
\* step is one in which the caller gets its answer)
C15_NotFoundStep ==
    \A j \in JobIds :
        RunJobNow(Caller, j) /\ response' # response /\ j \notin DOMAIN jobs =>
            /\ response' = Response(Caller, "run_job_now", j, 400, FALSE, "not found")
            /\ C15_NoCallback
            /\ C15_Untouched

\* a job that is in the table and is not the daily job: not-supported failure,
\* no callback
C15_NotSupportedStep ==
    \A j \in JobIds :
        RunJobNow(Caller, j) /\ response' # response
        /\ j \in DOMAIN jobs /\ j # DailyJobId =>
            /\ response' = Response(Caller, "run_job_now", j, 400, FALSE,
                                    "not supported")
            /\ C15_NoCallback
            /\ C15_Untouched

\* the daily job: the caller enters the collection, one execution more
C15_RunStep ==
    RunJobNow(Caller, DailyJobId) /\ DailyJobId \in DOMAIN jobs =>
        /\ runs' = runs + 1
        /\ pc'[Caller] = "collect"
        /\ route'[Caller] = "run_job_now"
        /\ response' = response
        /\ C15_Untouched

\* the steps of the caller inside the collection start no other execution and
\* leave the job table and the next run time alone
C15_InsideStep ==
    route[Caller] = "run_job_now" /\ route'[Caller] = "run_job_now"
    /\ <<pc[Caller], idx[Caller]>> # <<pc'[Caller], idx'[Caller]>> =>
        /\ runs' = runs
        /\ C15_Untouched

\* the collection returns: the answer is a success that carries its results
C15_ReturnStep ==
    RunJobNowReturns(Caller) =>
        /\ pc[Caller] = "return"
        /\ response'.success /\ response'.status = 200
        /\ response'.job_id = DailyJobId
        /\ response'.results = results[Caller]
        /\ runs' = runs
        /\ C15_Untouched

\* the call is synchronous: the caller has no answer for it before the
\* collection has returned
C15_Synchronous ==
    route[Caller] = "run_job_now" => pc[Caller] \in {"collect", "commit", "return"}

\* C15: run_job_now outcomes.  run_job_now(job_id) returns a not-found failure
\* and executes no callback when the job id is not in the job table, returns a
\* not-supported failure and executes no callback when the job exists but is
\* not 'daily_jurisprudence', and otherwise executes the daily collection once,
\* synchronously, and returns its result; in all three cases the job table and
\* the job's next run time are unchanged.
C15_Outcomes ==
    /\ []C15_Synchronous
    /\ [][C15_NotFoundStep /\ C15_NotSupportedStep /\ C15_RunStep
          /\ C15_InsideStep /\ C15_ReturnStep]_vars

\* a manual run returned results with an error entry, after the trigger of
\* the daily job had been evaluated and with a custom job in the table
C15_Witness ==
    /\ response.route = "run_job_now"
    /\ response.success
    /\ response.results.errors # <<>>
    /\ Len(response.results.success) + Len(response.results.errors) = NumAdapters
    /\ Log # <<>>
    /\ CustomJobId \in DOMAIN jobs

(* --------------------------- C16: graceful shutdown ---------------------- *)
\* an execution the executor started has not returned yet
InFlight(w) == route[w] = "executor" /\ pc[w] # "idle"

\* C16: graceful shutdown.  After shutdown_scheduler no new firing starts, and
\* an execution in flight at the moment of shutdown has run to completion
\* before the scheduler is considered stopped: when the scheduler is stopped,
\* no execution is in flight.
C16_Drained == ~running => \A w \in Workers : ~InFlight(w)

(* --------------------- C18: unreachable source yields empty -------------- *)
\* the last call of an adapter's operation
LastCall == scrape.call

\* the fetch fails at transport level: a timeout, a DNS failure, or a final
\* status of 400 to 599
C18_Unreachable(f) == GetRaises(f) \/ (StatusOf(f) >= 400 /\ StatusOf(f) < 600)

\* the fetch fails as the statement has it: a timeout, a DNS failure, or a
\* final status that is not 2xx
C18_Non2xx(f) == GetRaises(f) \/ StatusOf(f) < 200 \/ StatusOf(f) >= 300

\* get_page returned the failure value, without raising
C18_GetPage ==
    LastCall.fn = "get_page" /\ C18_Unreachable(LastCall.fetch) =>
        LastCall.out.none /\ ~LastCall.out.raised

\* search_recent_decisions returned an empty sequence, for every days_back
C18_Search ==
    LastCall.fn = "search_recent_decisions" /\ LastCall.source = "STJ"
    /\ C18_Unreachable(LastCall.fetch) =>
        LastCall.out = <<>>

\* C18: unreachable source yields empty, not failure.  When the fetch for a
\* source fails at transport level (timeout, DNS failure, final status of 400
\* to 599), get_page returns the failure value instead of raising, and
\* search_recent_decisions of the adapter returns an empty sequence instead of
\* raising, for every days_back.
C18_EmptyNotFailure == C18_GetPage /\ C18_Search

\* the search over 7 days came back empty after a timeout
C18_Witness ==
    /\ LastCall.fn = "search_recent_decisions"
    /\ LastCall.source = "STJ"
    /\ LastCall.fetch = "timeout"
    /\ LastCall.days_back = 7
    /\ LastCall.out = <<>>

\* the statement with every final status that is not 2xx as a failure
C18_AsStated ==
    /\ LastCall.fn = "get_page" /\ C18_Non2xx(LastCall.fetch) =>
           LastCall.out.none /\ ~LastCall.out.raised
    /\ LastCall.fn = "search_recent_decisions" /\ LastCall.source = "STJ"
       /\ C18_Non2xx(LastCall.fetch) =>
           LastCall.out = <<>>

(* ---------------------------- C19: composite collect --------------------- *)
\* what the calls of extract_decision_details returned, without the absent
C19_Present(returns) == SelectSeq(returns, LAMBDA r : ~r.none)

\* extract_decision_details was called once for each candidate, in the
\* candidates' order
C19_OncePerCandidate ==
    LastCall.fn = "get_recent_jurisprudence" =>
        /\ Len(LastCall.calls) = Len(LastCall.candidates)
        /\ \A i \in DOMAIN LastCall.candidates :
               LastCall.calls[i] = LastCall.candidates[i].url

\* the result is the non-absent results, in the order of the calls
C19_NonAbsentInOrder ==
    LastCall.fn = "get_recent_jurisprudence" =>
        LET present == C19_Present(LastCall.returns)
        IN  /\ Len(LastCall.returns) = Len(LastCall.calls)
            /\ LastCall.detailed = [i \in 1..Len(present) |-> present[i].value]

\* an absent result changes nothing for the other candidates: what is there
\* for a candidate is the decision at its url
C19_OthersUnaffected ==
    LastCall.fn = "get_recent_jurisprudence" =>
        \A i \in DOMAIN LastCall.returns :
            ~LastCall.returns[i].none =>
                LastCall.returns[i].value = DetailsOf(LastCall.candidates[i].url)

\* C19: composite collect.  get_recent_jurisprudence(days_back) calls
\* extract_decision_details exactly once for each candidate that
\* search_recent_decisions returned, in the candidates' order, and returns
\* exactly the non-absent results in that order; a candidate whose extraction
\* returns absent is omitted without affecting the other candidates.
C19_Composite == C19_OncePerCandidate /\ C19_NonAbsentInOrder /\ C19_OthersUnaffected

\* two candidates, the first without details: the second's are returned
C19_Witness ==
    /\ LastCall.fn = "get_recent_jurisprudence"
    /\ LastCall.calls = <<"u1", "u2">>
    /\ LastCall.returns[1].none
    /\ LastCall.detailed = <<DetailsOf("u2")>>

(* ------------------------------ C20: rules variant ----------------------- *)
\* search_recent_decisions returned what get_all_enunciados gives on the same
\* pages, whatever days_back is
C20_FullCorpus ==
    LastCall.fn = "search_recent_decisions" /\ LastCall.source = "ENUNCIADOS" =>
        LastCall.out = LastCall.corpus

\* the search is the same function of the pages for every days_back
C20_IgnoresDaysBack ==
    \A web \in EnunWebs, d \in DaysBack :
        SearchAllEnunciados(d, web) = GetAllEnunciados(web)

\* extract_decision_details returned absent
C20_NoDetails ==
    LastCall.fn = "extract_decision_details" /\ LastCall.source = "ENUNCIADOS" =>
        LastCall.out.none

\* C20: rules variant.  For the ENUNCIADOS adapter, search_recent_decisions(
\* days_back) returns the same result as get_all_enunciados() for every value
\* of days_back, and extract_decision_details returns absent for every input.
C20_RulesVariant == C20_FullCorpus /\ C20_IgnoresDaysBack /\ C20_NoDetails

\* a search over no days returned the enunciado of the FONAJE page 'criminais'
\* and the one of the CNJ page
C20_Witness ==
    /\ LastCall.fn = "search_recent_decisions"
    /\ LastCall.source = "ENUNCIADOS"
    /\ LastCall.days_back = 0
    /\ Len(LastCall.out) = 2
    /\ LastCall.out[1].tipo = "CRIMINAIS"
    /\ LastCall.out[2].orgao = "CNJ"

(* ------------------- C17: failures inside an adapter --------------------- *)
\* the sources in which a fetch or a parse failed during the caller's run
Faults == scrape.faults

\* the run has gone through every adapter
C17_NotAborted ==
    pc[Caller] = "return" =>
        Len(results[Caller].success) + Len(results[Caller].errors) = NumAdapters

\* a failure inside the STJ or the ENUNCIADOS adapter leaves the source with a
\* success entry and without an error entry
C17_Swallowed ==
    pc[Caller] = "return" =>
        \A a \in Faults :
            /\ a \in SourcesOf(results[Caller].success)
            /\ a \notin SourcesOf(results[Caller].errors)

\* the step in which the failure happens goes on to the save of what the
\* adapter returned
C17_FaultStep ==
    scrape'.faults # scrape.faults /\ scrape'.faults # {} =>
        /\ pc'[Caller] = "commit"
        /\ results' = results

C21_StartedOrFailed == running

(* ------------------------------ C22: job lifecycle ----------------------- *)
\* the state of a job id: running while an execution the executor started for
\* it is in progress, otherwise scheduled when it is in the job table
JobState(j) ==
    IF j = DailyJobId /\ instances > 0
    THEN "running"
    ELSE IF j \in DOMAIN jobs THEN "scheduled" ELSE "absent"

\* add, remove, the trigger fires, the execution ends
C22_Moves ==
    {<<"absent", "scheduled">>, <<"scheduled", "absent">>,
     <<"scheduled", "running">>, <<"running", "scheduled">>}

\* C22: job lifecycle.  Each job id moves only along absent -> scheduled,
\* scheduled -> absent, scheduled -> running and running -> scheduled; a job
\* that started executing is scheduled again when its callback ends.
C22_Lifecycle ==
    [][\A j \in JobIds :
          \/ JobState(j)' = JobState(j)
          \/ <<JobState(j), JobState(j)'>> \in C22_Moves]_vars

(* ---------------- C23: one entry per adapter, in registry order --------- *)
\* the place of a source in self.scrapers
Position(a) == CHOOSE i \in 1..NumAdapters : Registry[i] = a

\* the entries of a list follow the order of the registry, none twice
InRegistryOrder(list) ==
    \A i, j \in 1..Len(list) :
        i < j => Position(list[i].source) < Position(list[j].source)

\* the entries of a list that name a source
EntriesOf(list, a) == {i \in 1..Len(list) : list[i].source = a}

\* C23: one entry per adapter, in registry order. In every result that
\* collect_all_recent_jurisprudence returns, each of STF, STJ, TJSP and
\* ENUNCIADOS has exactly one entry, in the success list or in the error list
\* and never in both, and each list (also while the run is under way) follows
\* the order of the registry.
C23_OneEntryEach ==
    \A t \in Threads :
        /\ InRegistryOrder(results[t].success)
        /\ InRegistryOrder(results[t].errors)
        /\ pc[t] = "return" =>
               \A a \in Adapters :
                   Cardinality(EntriesOf(results[t].success, a))
                       + Cardinality(EntriesOf(results[t].errors, a)) = 1

\* a run returns with STJ and ENUNCIADOS in the error list, in that order, and
\* STF and TJSP in the success list, in that order
C23_Witness ==
    /\ pc[Caller] = "return"
    /\ Len(results[Caller].errors) = 2
    /\ results[Caller].errors[1].source = "STJ"
    /\ results[Caller].errors[2].source = "ENUNCIADOS"
    /\ Len(results[Caller].success) = 2
    /\ results[Caller].success[1].source = "STF"
    /\ results[Caller].success[2].source = "TJSP"

(* ---------------- C24: every job has max_instances = 1 ------------------ *)
\* C24: max-instances invariant. In every reachable state of the scheduler
\* every job of the job table allows one concurrent instance, whether it was
\* registered at start-up, by add_custom_job or by a reconfiguration of the
\* daily job, and whatever was added, replaced, removed or reconfigured before.
C24_MaxInstances == \A j \in DOMAIN jobs : jobs[j].max_instances = 1

\* the table holds a custom job and the daily job registered again by a
\* reconfiguration, at another hour than the 9h of the start-up
C24_Witness ==
    /\ DOMAIN jobs = JobIds
    /\ jobs[DailyJobId].hour # 9
    /\ jobs[CustomJobId].func = "func"
    /\ response.route = "update_schedule_config"
    /\ response.success

(* ---------------- C25: two runs that overlap ---------------------------- *)
\* empty tables; the STF source publishes one decision, the others nothing
OverlapInit ==
    /\ jurisprudencia = <<>>
    /\ enunciados = <<>>
    /\ \E r \in Decisions("STF") :
           sources = [a \in Adapters |->
                         [volatile |-> FALSE,
                          listing |-> IF a = "STF" THEN <<r>> ELSE <<>>]]
    /\ IdleThreads
    /\ SchedulerStarted

\* POST /collect-now in a request thread beside a triggered execution in a
\* worker thread: each has its own session, the table is shared
OverlapNext ==
    \/ StartRun(Caller) /\ UNCHANGED <<schedVars, scrape>>
    \/ Return(Caller) /\ route[Caller] = "none" /\ UNCHANGED <<schedVars, scrape>>
    \/ \E w \in Workers : Fire(w) /\ UNCHANGED <<timer, scrape>>
    \/ \E w \in Workers : ExecutorReturns(w) /\ UNCHANGED <<timer, scrape>>
    \/ \E t \in Workers \cup {Caller} : Collect(t) /\ UNCHANGED <<schedVars, scrape>>
    \/ \E t \in Workers \cup {Caller} : CommitOk(t) /\ UNCHANGED <<schedVars, scrape>>

OverlapSpec == OverlapInit /\ [][OverlapNext]_vars

\* C25: uniqueness under overlapping runs. When a triggered execution and a
\* manual collection overlap and both get a decision with the same key that is
\* not stored yet, the table holds at most one row for that key, with no lock
\* beyond the storage transaction.
C25_OneRowPerKey ==
    \A r \in Decisions("STF") :
        Cardinality({i \in 1..Len(jurisprudencia) :
                        KeyOf(jurisprudencia[i]) = KeyOf(r)}) <= 1

(* ---------------- C26..C29: operations that fail ------------------------ *)
\* bodies of PUT /schedule-config whose 'hour' is the JSON number h + 1/2
\* (0.5, 22.5, 23.5); 'minute' is absent
FractionBodies == {[hour_floor |-> h] : h \in {0, 22, 23}}

\* 0 <= hour <= 23 for hour = h + 1/2
ValidFractionHour(data) == 0 <= data.hour_floor /\ data.hour_floor + 1 <= 23

\* PUT /schedule-config with such a body: past the range checks remove_job takes
\* the daily job out, then CronTrigger(hour=h + 1/2, ...) raises ValueError
\* (no expression of the hour field matches) before add_job is called, and the
\* except clause of the route answers 500
UpdateScheduleConfigFraction(t, data) ==
    /\ pc[t] = "idle"
    /\ IF ~ValidFractionHour(data)
       THEN Responds(t, Response(t, "update_schedule_config", "", 400, FALSE, "invalid"))
            /\ UNCHANGED jobs
       ELSE /\ jobs' = WithoutJob(jobs, DailyJobId)
            /\ Responds(t, Response(t, "update_schedule_config", "", 500, FALSE, "error"))

\* POST /jobs/daily_jurisprudence/run when collect_daily_jurisprudence raises
\* inside its try before the collection starts (the application context or the
\* constructor of JurisprudenciaService): it returns {'error': str(e)} and
\* run_job_now wraps that value in {'success': True, 'results': ...}
RunJobNowCallbackFails(t) ==
    /\ pc[t] = "idle"
    /\ DailyJobId \in DOMAIN jobs
    /\ Responds(t, Response(t, "run_job_now", DailyJobId, 200, TRUE, "error value"))
    /\ UNCHANGED jobs

\* the state init_app leaves; the sources publish nothing new
ReconfigInit ==
    /\ jurisprudencia = <<>>
    /\ enunciados = <<>>
    /\ sources = [a \in Adapters |-> [volatile |-> FALSE, listing |-> <<>>]]
    /\ IdleThreads
    /\ SchedulerStarted

\* one client after the other: reconfigurations, removals, manual runs, and
\* add_custom_job called by the application
ReconfigNext ==
    \/ \E data \in Bodies :
           UpdateScheduleConfig(Caller, data) /\ UNCHANGED <<timer, scrape>>
    \/ AddJob(Caller) /\ UNCHANGED <<timer, scrape>>
    \/ \E data \in FractionBodies :
           UpdateScheduleConfigFraction(Caller, data) /\ UNCHANGED <<timer, scrape>>
    \/ \E j \in JobIds : RemoveJob(Caller, j) /\ UNCHANGED <<timer, scrape>>
    \/ \E j \in JobIds : RunJobNow(Caller, j) /\ UNCHANGED <<timer, scrape>>
    \/ RunJobNowCallbackFails(Caller) /\ UNCHANGED <<timer, scrape>>
    \/ RunJobNowReturns(Caller) /\ UNCHANGED <<timer, scrape>>
    \/ Collect(Caller) /\ UNCHANGED <<schedVars, scrape>>
    \/ CommitOk(Caller) /\ UNCHANGED <<schedVars, scrape>>
    \/ \E cfg \in {[type |-> "cron"], [type |-> "interval"]} :
           pc[Caller] = "idle" /\ AddCustomJob(cfg) /\ UNCHANGED <<timer, scrape>>

ReconfigSpec == ReconfigInit /\ [][ReconfigNext]_vars

\* a reconfiguration that got past the range checks is answered with a failure
C26_FailedStep(t) ==
    /\ pc[t] = "idle"
    /\ pc'[t] = "idle"
    /\ response' # response
    /\ response'.thread = t
    /\ response'.route = "update_schedule_config"
    /\ response'.status = 500

\* C26: the daily job survives a failed reconfiguration. When a request to
\* reconfigure passes the range validation and building or registering the new
\* trigger fails, the request reports failure and 'daily_jurisprudence' is
\* still in the job table afterwards, with the trigger it had.
C26_Survives ==
    [][\A t \in Threads :
          C26_FailedStep(t) /\ DailyJobId \in DOMAIN jobs =>
              /\ ~response'.success
              /\ DailyJobId \in DOMAIN jobs'
              /\ jobs'[DailyJobId] = jobs[DailyJobId]]_vars

\* the trigger configurations add_custom_job turns down
UnsupportedConfigs == {[type |-> "interval"]}

\* C27: a failed add leaves the job table unchanged. When add_custom_job
\* returns a failure result, as for a trigger_config whose type is not 'cron',
\* the job table is the one before the call: a job that existed under job_id
\* is still there with its trigger and callback.
C27_TableUnchanged ==
    [][\A cfg \in UnsupportedConfigs : AddCustomJob(cfg) => jobs' = jobs]_vars

\* the clients are between operations: no reconfiguration is half done
Quiescent == \A t \in Threads : pc[t] # "add_job"

\* C28: identity of the built-in job. From the end of init_app on, after any
\* sequence of add_custom_job, remove_job requests, reconfigurations and
\* run_job_now, the job table holds the job 'daily_jurisprudence' and its
\* callback is collect_daily_jurisprudence.
C28_DailyJobListed ==
    Quiescent =>
        /\ DailyJobId \in DOMAIN jobs
        /\ jobs[DailyJobId].func = "collect_daily_jurisprudence"

\* C29: the success flag of run_job_now reflects the callback. The answer for
\* 'daily_jurisprudence' has success true only when the collection completed
\* and returned its result (success list, error list, total); when the callback
\* failed and returned an error value, success is false.
C29_FlagReflectsCallback ==
    response.route = "run_job_now" /\ response.job_id = DailyJobId =>
        /\ response.success => response.message = "results"
        /\ response.message = "error value" => ~response.success

(* ---------------- C30: a run terminates --------------------------------- *)
\* the calls a run waits for: the adapter's call and the commit return or raise
Proceeds ==
    \/ Collect(Caller)
    \/ CollectRaises(Caller)
    \/ CommitOk(Caller)
    \/ CommitFails(Caller)
    \/ RollbackRaises(Caller)

\* the runs of Spec in which no call of a run hangs for ever
LiveSpec == Spec /\ WF_vars(Proceeds /\ UNCHANGED <<schedVars, scrape>>)

\* a step of the loop: it starts at the first adapter, goes from an adapter to
\* the next one only, and returns from the last one only
C30_LoopStep(t) ==
    /\ pc[t] = "idle" /\ pc'[t] # "idle" => pc'[t] = "collect" /\ idx'[t] = 1
    /\ pc[t] = "collect" /\ pc'[t] = "commit" => idx'[t] = idx[t]
    /\ pc[t] \in {"collect", "commit"} /\ pc'[t] = "collect"
          /\ <<pc'[t], idx'[t], results'[t]>> # <<pc[t], idx[t], results[t]>>
          => idx'[t] = idx[t] + 1
    /\ pc[t] \in {"collect", "commit"} /\ pc'[t] = "return" => idx[t] = NumAdapters
    /\ pc[t] \in {"collect", "commit"} => pc'[t] \in {"collect", "commit", "return"}

\* C30: termination of a run. Provided every adapter call and every commit
\* returns or raises, every started collect_all_recent_jurisprudence reaches its
\* return, after one visit to each adapter of the registry in order and with no
\* second attempt at an adapter that failed.
C30_Terminates ==
    /\ \A t \in {Caller} : (pc[t] \in {"collect", "commit"}) ~> (pc[t] = "return")
    /\ [][\A t \in Threads : C30_LoopStep(t)]_vars

\* a run whose first adapter raised has gone on and returns with that one error
\* and the three other sources collected
C30_Witness ==
    /\ pc[Caller] = "return"
    /\ idx[Caller] = NumAdapters
    /\ SourcesOf(results[Caller].errors) = {"STF"}
    /\ Len(results[Caller].success) = 3
    /\ run_id[Caller] \in error_log

====
